---- MODULE Spec2Model ----
(***************************************************************************)
(* RBAC decision engine of hono-api-boilerplate: the policy tables and     *)
(* their resolvers (src/lib/permissions.ts), the guard middlewares         *)
(* (src/lib/middleware/rbac.ts) and the request chain they run in.         *)
(*                                                                         *)
(* JavaScript values are modelled as follows.  A nullable value is a       *)
(* sequence of at most one element (<<>> is null / undefined).  A string   *)
(* that may be missing is "" when missing (falsy, as in the code's         *)
(* `!organizationId` and `x || "member"`).  A call that may throw returns  *)
(* a record with a `threw` field.                                          *)
(***************************************************************************)
EXTENDS Naturals, Sequences, FiniteSets

VARIABLES
    members,      \* Membership Store: rows of table organization_member
    storeFault,   \* TRUE while a query to the Membership Store throws
    user,         \* c.get("user"): <<>> or <<[id, role, banned]>>
    session,      \* c.get("session"): <<>> or <<[userId]>>
    param,        \* c.req.param("organizationId"), "" when the route has none
    ctx,          \* c.get("organizationId"), c.get("organizationRole")
    chain,        \* the guards the matched route declares, in order
    pc,           \* 0: no request; i: chain[i] runs next; Len(chain)+1: handler
    log,          \* what each guard that ran did, in the order they ran
    res,          \* the response of the request, NoResponse while pending
    handlerRan,   \* the route handler was reached
    call,         \* the last call of a helper function and its result
    sources,      \* the request's other places for an organization id
    route,        \* the matched route's handler and its :id parameter
    users,        \* rows of table user
    invitations,  \* rows of table invitation
    now,          \* the clock
    accept        \* the invitation requests in progress

\* what the guard chain neither reads nor writes
extVars == <<sources, route, users, invitations, now, accept>>

vars == <<members, storeFault, user, session, param, ctx, chain, pc, log, res,
          handlerRan, call, extVars>>

reqVars == <<user, session, param, ctx, chain, pc, log, res, handlerRan>>

-----------------------------------------------------------------------------
(* Policy tables and resolvers: src/lib/permissions.ts                     *)

\* the resource -> actions universe
permissions ==
    [user         |-> {"create", "read", "update", "delete", "ban", "impersonate"},
     project      |-> {"create", "read", "update", "delete", "manage"},
     admin        |-> {"read", "manage"},
     organization |-> {"create", "read", "update", "delete", "manage", "invite"},
     team         |-> {"create", "read", "update", "delete", "manage"},
     invitation   |-> {"create", "read", "update", "delete", "cancel"},
     member       |-> {"create", "read", "update", "delete"}]

\* app-level roles
rolePermissions ==
    [admin |->
        [user         |-> {"create", "read", "update", "delete", "ban", "impersonate"},
         project      |-> {"create", "read", "update", "delete", "manage"},
         admin        |-> {"read", "manage"},
         organization |-> {"create", "read", "update", "delete", "manage", "invite"},
         team         |-> {"create", "read", "update", "delete", "manage"},
         invitation   |-> {"create", "read", "update", "delete", "cancel"},
         member       |-> {"create", "read", "update", "delete"}],
     user |->
        [project      |-> {"create", "read", "update"},
         organization |-> {"read"},
         team         |-> {"read"},
         invitation   |-> {"read"},
         member       |-> {"read"}]]

\* mutant of organizationRolePermissions: member copied from admin for the
\* organization resource
organizationRolePermissionsMemberUpdates ==
    [owner |->
        [project      |-> {"create", "read", "update", "delete", "manage"},
         organization |-> {"read", "update", "manage", "invite"},
         team         |-> {"create", "read", "update", "delete", "manage"},
         invitation   |-> {"create", "read", "update", "delete", "cancel"},
         member       |-> {"create", "read", "update", "delete"},
         user         |-> {"read"}],
     admin |->
        [project      |-> {"create", "read", "update", "delete"},
         organization |-> {"read", "update", "invite"},
         team         |-> {"create", "read", "update", "delete"},
         invitation   |-> {"create", "read", "update", "delete", "cancel"},
         member       |-> {"create", "read", "update", "delete"},
         user         |-> {"read"}],
     member |->
        [project      |-> {"create", "read", "update"},
         organization |-> {"read", "update", "invite"},
         team         |-> {"read"},
         invitation   |-> {"read"},
         member       |-> {"read"},
         user         |-> {"read"}]]

\* mutant of organizationRolePermissions: admin may delete the organization,
\* which owner may not
organizationRolePermissionsAdminDeletes ==
    [owner |->
        [project      |-> {"create", "read", "update", "delete", "manage"},
         organization |-> {"read", "update", "manage", "invite"},
         team         |-> {"create", "read", "update", "delete", "manage"},
         invitation   |-> {"create", "read", "update", "delete", "cancel"},
         member       |-> {"create", "read", "update", "delete"},
         user         |-> {"read"}],
     admin |->
        [project      |-> {"create", "read", "update", "delete"},
         organization |-> {"read", "update", "delete", "invite"},
         team         |-> {"create", "read", "update", "delete"},
         invitation   |-> {"create", "read", "update", "delete", "cancel"},
         member       |-> {"create", "read", "update", "delete"},
         user         |-> {"read"}],
     member |->
        [project      |-> {"create", "read", "update"},
         organization |-> {"read"},
         team         |-> {"read"},
         invitation   |-> {"read"},
         member       |-> {"read"},
         user         |-> {"read"}]]

\* organization-specific roles
organizationRolePermissions ==
    [owner |->
        [project      |-> {"create", "read", "update", "delete", "manage"},
         organization |-> {"read", "update", "manage", "invite"},
         team         |-> {"create", "read", "update", "delete", "manage"},
         invitation   |-> {"create", "read", "update", "delete", "cancel"},
         member       |-> {"create", "read", "update", "delete"},
         user         |-> {"read"}],
     admin |->
        [project      |-> {"create", "read", "update", "delete"},
         organization |-> {"read", "update", "invite"},
         team         |-> {"create", "read", "update", "delete"},
         invitation   |-> {"create", "read", "update", "delete", "cancel"},
         member       |-> {"create", "read", "update", "delete"},
         user         |-> {"read"}],
     member |->
        [project      |-> {"create", "read", "update"},
         organization |-> {"read"},
         team         |-> {"read"},
         invitation   |-> {"read"},
         member       |-> {"read"},
         user         |-> {"read"}]]

\* a call that returned v
Returned(v) == [threw |-> FALSE, value |-> v]

\* a call that raised (TypeError: cannot read properties of undefined)
Threw == [threw |-> TRUE, value |-> FALSE]

\* table[key] of a JavaScript object: <<>> (undefined) for an absent key
Lookup(table, key) == IF key \in DOMAIN table THEN <<table[key]>> ELSE <<>>

\* the resolver both exported helpers share: table[role][resource] is read
\* without a check of table[role], then tested before .includes(action)
resolve(table, role, resource, action) ==
    LET rolePerms == Lookup(table, role)
    IN  IF rolePerms = <<>>
        THEN Threw
        ELSE LET resourcePerms == Lookup(rolePerms[1], resource)
             IN  IF resourcePerms # <<>>
                 THEN Returned(action \in resourcePerms[1])
                 ELSE Returned(FALSE)

hasPermission(role, resource, action) ==
    resolve(rolePermissions, role, resource, action)

hasOrganizationPermission(role, resource, action) ==
    resolve(organizationRolePermissions, role, resource, action)

\* role keys a caller can pass: the table's own and one the table lacks
\* (user.role and member.role are free-form VARCHAR columns)
AppRoleKeys == {"admin", "user", "moderator"}
OrgRoleKeys == {"owner", "admin", "member", "guest"}

\* resource and action names a caller can pass: the universe's own and one
\* of each that no table lists
ResourceKeys == DOMAIN permissions \cup {"billing"}
ActionKeys == UNION {permissions[r] : r \in DOMAIN permissions} \cup {"export"}

NoCall == [fn |-> "", role |-> "", resource |-> "", action |-> "",
           result |-> Returned(FALSE)]

-----------------------------------------------------------------------------
(* Requests, principals and the Membership Store                           *)

Orgs == {"o1", "o2"}
Users == {"u1", "u2"}

\* organization_member.role as the application's routes write it
OrgRoles == {"owner", "admin", "member"}

\* the session user's role: "" stands for a role the auth service left out
SystemRoles == {"admin", "user", ""}

\* the most rows the Membership Store holds
MaxMembers == 2

Principals == [id : Users, role : SystemRoles, banned : BOOLEAN]

MemberRows == [organizationId : Orgs, userId : Users, role : OrgRoles]

NoContext == [organizationId |-> "", organizationRole |-> ""]

\* what a middleware does: it calls next() or it ends the request
Proceed == [status |-> 0, message |-> "next"]
HTTPException(status, message) == [status |-> status, message |-> message]
NoResponse == [status |-> 0, message |-> ""]

\* a guard as a route declares it
Guard(kind, resource, action, roles) ==
    [kind |-> kind, resource |-> resource, action |-> action, roles |-> roles]

\* what a guard did: its verdict, the context it leaves, and how often it
\* queried the Membership Store and consulted a policy table
Outcome(verdict, organizationId, organizationRole, dbReads, policyReads) ==
    [verdict |-> verdict, organizationId |-> organizationId,
     organizationRole |-> organizationRole, dbReads |-> dbReads,
     policyReads |-> policyReads]

\* a guard that throws before it touched the context
Reject(exception, dbReads, policyReads) ==
    Outcome(exception, ctx.organizationId, ctx.organizationRole, dbReads,
            policyReads)

\* prisma.member.findUnique({where: {organizationId_userId: ...}}): the row,
\* null, or a thrown error while the store is unavailable
findUnique(organizationId, userId) ==
    IF storeFault
    THEN [threw |-> TRUE, row |-> <<>>]
    ELSE LET rows == {m \in members : /\ m.organizationId = organizationId
                                      /\ m.userId = userId}
         IN  [threw |-> FALSE,
              row |-> IF rows = {} THEN <<>> ELSE <<CHOOSE m \in rows : TRUE>>]

\* x || fallback
OrElse(x, fallback) == IF x = "" THEN fallback ELSE x

-----------------------------------------------------------------------------
(* The guards: src/lib/middleware/rbac.ts.  Each operator is the guard's   *)
(* code up to its `await next()`.  Hono's compose turns an error thrown by *)
(* a later middleware into the response where it is thrown, so next()      *)
(* itself never throws into a guard's catch block.                         *)

\* mutant of requireSession: the check calls next() for every request
requireSessionLetsThrough ==
    Outcome(Proceed, ctx.organizationId, ctx.organizationRole, 0, 0)

\* the session check in front of /me/* and /organizations/*
requireSession ==
    IF session = <<>>
    THEN Reject(HTTPException(401, "Unauthorized"), 0, 0)
    ELSE Outcome(Proceed, ctx.organizationId, ctx.organizationRole, 0, 0)

requirePermission(resource, action) ==
    IF user = <<>> \/ session = <<>>
    THEN Reject(HTTPException(401, "Authentication required"), 0, 0)
    ELSE LET userRole == OrElse(user[1].role, "user")
             granted == hasPermission(userRole, resource, action)
             \* what the try block throws, Proceed when it reaches next()
             tried == IF granted.threw
                      THEN HTTPException(500, "TypeError")
                      ELSE IF ~granted.value
                      THEN HTTPException(403, "Insufficient permissions")
                      ELSE Proceed
         IN  IF tried # Proceed
             \* catch (error): every error of the try block, the 403 included
             THEN Reject(HTTPException(500, "Permission check failed"), 0, 1)
             ELSE Outcome(Proceed, ctx.organizationId, ctx.organizationRole,
                          0, 1)

\* mutant of requireRole: an organization role found in the context or the
\* store counts as the user's role
requireRoleOrgRoleCounts(roles) ==
    IF user = <<>>
    THEN Reject(HTTPException(401, "Authentication required"), 0, 0)
    ELSE LET userRole == OrElse(user[1].role, "user")
             orgRoles == {m.role : m \in {x \in members : x.userId = user[1].id}}
         IN  IF userRole \notin roles /\ orgRoles \cap roles = {}
             THEN Reject(HTTPException(403, "Required role"), 0, 0)
             ELSE Outcome(Proceed, ctx.organizationId, ctx.organizationRole,
                          0, 0)

\* mutant of requireRole: a principal without a role counts as admin
requireRoleDefaultsToAdmin(roles) ==
    IF user = <<>>
    THEN Reject(HTTPException(401, "Authentication required"), 0, 0)
    ELSE LET userRole == OrElse(user[1].role, "admin")
         IN  IF userRole \notin roles
             THEN Reject(HTTPException(403, "Required role"), 0, 0)
             ELSE Outcome(Proceed, ctx.organizationId, ctx.organizationRole,
                          0, 0)

requireRole(roles) ==
    IF user = <<>>
    THEN Reject(HTTPException(401, "Authentication required"), 0, 0)
    ELSE LET userRole == OrElse(user[1].role, "user")
         IN  IF userRole \notin roles
             THEN Reject(HTTPException(403, "Required role"), 0, 0)
             ELSE Outcome(Proceed, ctx.organizationId, ctx.organizationRole,
                          0, 0)

\* mutant of requireOrganizationMember: the context is written before the
\* membership is checked
requireOrganizationMemberWritesEarly ==
    IF user = <<>>
    THEN Reject(HTTPException(401, "Authentication required"), 0, 0)
    ELSE LET organizationId == OrElse(ctx.organizationId, param)
         IN  IF organizationId = ""
             THEN Reject(HTTPException(400, "Organization ID required"), 0, 0)
             ELSE LET membership == findUnique(organizationId, user[1].id)
                  IN  IF membership.threw \/ membership.row = <<>>
                      THEN Outcome(HTTPException(403, "Organization access denied"),
                                   organizationId, ctx.organizationRole, 1, 0)
                      ELSE Outcome(Proceed, organizationId,
                                   OrElse(membership.row[1].role, "member"),
                                   1, 0)

\* mutant of requireOrganizationMember: organizationRole is not written
requireOrganizationMemberNoRole ==
    IF user = <<>>
    THEN Reject(HTTPException(401, "Authentication required"), 0, 0)
    ELSE LET organizationId == OrElse(ctx.organizationId, param)
         IN  IF organizationId = ""
             THEN Reject(HTTPException(400, "Organization ID required"), 0, 0)
             ELSE LET membership == findUnique(organizationId, user[1].id)
                  IN  IF membership.threw \/ membership.row = <<>>
                      THEN Reject(HTTPException(403, "Organization access denied"), 1, 0)
                      ELSE Outcome(Proceed, organizationId, ctx.organizationRole,
                                   1, 0)

\* mutant of requireOrganizationMember: the organization id is checked
\* before the principal
requireOrganizationMemberIdFirst ==
    LET organizationId == OrElse(ctx.organizationId, param)
    IN  IF organizationId = ""
        THEN Reject(HTTPException(400, "Organization ID required"), 0, 0)
        ELSE IF user = <<>>
        THEN Reject(HTTPException(401, "Authentication required"), 0, 0)
        ELSE LET membership == findUnique(organizationId, user[1].id)
             IN  IF membership.threw \/ membership.row = <<>>
                 THEN Reject(HTTPException(403, "Organization access denied"), 1, 0)
                 ELSE Outcome(Proceed, organizationId,
                              OrElse(membership.row[1].role, "member"), 1, 0)

requireOrganizationMember ==
    IF user = <<>>
    THEN Reject(HTTPException(401, "Authentication required"), 0, 0)
    ELSE LET organizationId == OrElse(ctx.organizationId, param)
         IN  IF organizationId = ""
             THEN Reject(HTTPException(400, "Organization ID required"), 0, 0)
             ELSE LET membership == findUnique(organizationId, user[1].id)
                      tried == IF membership.threw
                               THEN HTTPException(500, "PrismaClientError")
                               ELSE IF membership.row = <<>>
                               THEN HTTPException(403, "Not a member of this organization")
                               ELSE Proceed
                  IN  IF tried # Proceed
                      THEN Reject(HTTPException(403, "Organization access denied"), 1, 0)
                      ELSE Outcome(Proceed, organizationId,
                                   OrElse(membership.row[1].role, "member"),
                                   1, 0)

\* mutant of requireOrganizationPermission: a system admin passes before
\* the membership lookup, whether banned or not
requireOrganizationPermissionAdminBypass(resource, action) ==
    IF user = <<>>
    THEN Reject(HTTPException(401, "Authentication required"), 0, 0)
    ELSE LET organizationId == OrElse(ctx.organizationId, param)
         IN  IF organizationId = ""
             THEN Reject(HTTPException(400, "Organization ID required"), 0, 0)
             ELSE IF user[1].role = "admin"
             THEN Outcome(Proceed, organizationId, ctx.organizationRole, 0, 0)
             ELSE LET membership == findUnique(organizationId, user[1].id)
                      userOrgRole == OrElse(membership.row[1].role, "member")
                      granted == hasOrganizationPermission(userOrgRole, resource, action)
                      tried == IF membership.threw
                               THEN HTTPException(500, "PrismaClientError")
                               ELSE IF membership.row = <<>>
                               THEN HTTPException(403, "Not a member of this organization")
                               ELSE IF granted.threw
                               THEN HTTPException(500, "TypeError")
                               ELSE IF ~granted.value
                               THEN HTTPException(403, "Insufficient organization permissions")
                               ELSE Proceed
                      policyReads == IF membership.threw \/ membership.row = <<>>
                                     THEN 0 ELSE 1
                  IN  IF tried # Proceed
                      THEN Reject(HTTPException(403, "Organization permission denied"),
                                  1, policyReads)
                      ELSE Outcome(Proceed, organizationId, ctx.organizationRole,
                                   1, policyReads)

\* mutant of requireOrganizationPermission: the errors of the try block
\* leave the guard as they were thrown
requireOrganizationPermissionNoCatch(resource, action) ==
    IF user = <<>>
    THEN Reject(HTTPException(401, "Authentication required"), 0, 0)
    ELSE LET organizationId == OrElse(ctx.organizationId, param)
         IN  IF organizationId = ""
             THEN Reject(HTTPException(400, "Organization ID required"), 0, 0)
             ELSE LET membership == findUnique(organizationId, user[1].id)
                      userOrgRole == OrElse(membership.row[1].role, "member")
                      granted == hasOrganizationPermission(userOrgRole, resource, action)
                      tried == IF membership.threw
                               THEN HTTPException(500, "PrismaClientError")
                               ELSE IF membership.row = <<>>
                               THEN HTTPException(403, "Not a member of this organization")
                               ELSE IF granted.threw
                               THEN HTTPException(500, "TypeError")
                               ELSE IF ~granted.value
                               THEN HTTPException(403, "Insufficient organization permissions")
                               ELSE Proceed
                      policyReads == IF membership.threw \/ membership.row = <<>>
                                     THEN 0 ELSE 1
                  IN  IF tried # Proceed
                      THEN Reject(tried, 1, policyReads)
                      ELSE Outcome(Proceed, organizationId, ctx.organizationRole,
                                   1, policyReads)

\* mutant of requireOrganizationPermission: an error of the store lets the
\* request through
requireOrganizationPermissionFailsOpen(resource, action) ==
    IF user = <<>>
    THEN Reject(HTTPException(401, "Authentication required"), 0, 0)
    ELSE LET organizationId == OrElse(ctx.organizationId, param)
         IN  IF organizationId = ""
             THEN Reject(HTTPException(400, "Organization ID required"), 0, 0)
             ELSE LET membership == findUnique(organizationId, user[1].id)
                      userOrgRole == OrElse(membership.row[1].role, "member")
                      granted == hasOrganizationPermission(userOrgRole, resource, action)
                      tried == IF membership.threw
                               THEN Proceed
                               ELSE IF membership.row = <<>>
                               THEN HTTPException(403, "Not a member of this organization")
                               ELSE IF granted.threw
                               THEN HTTPException(500, "TypeError")
                               ELSE IF ~granted.value
                               THEN HTTPException(403, "Insufficient organization permissions")
                               ELSE Proceed
                      policyReads == IF membership.threw \/ membership.row = <<>>
                                     THEN 0 ELSE 1
                  IN  IF tried # Proceed
                      THEN Reject(HTTPException(403, "Organization permission denied"),
                                  1, policyReads)
                      ELSE Outcome(Proceed, organizationId, ctx.organizationRole,
                                   1, policyReads)

requireOrganizationPermission(resource, action) ==
    IF user = <<>>
    THEN Reject(HTTPException(401, "Authentication required"), 0, 0)
    ELSE LET organizationId == OrElse(ctx.organizationId, param)
         IN  IF organizationId = ""
             THEN Reject(HTTPException(400, "Organization ID required"), 0, 0)
             ELSE LET membership == findUnique(organizationId, user[1].id)
                      userOrgRole == OrElse(membership.row[1].role, "member")
                      granted == hasOrganizationPermission(userOrgRole, resource, action)
                      tried == IF membership.threw
                               THEN HTTPException(500, "PrismaClientError")
                               ELSE IF membership.row = <<>>
                               THEN HTTPException(403, "Not a member of this organization")
                               ELSE IF granted.threw
                               THEN HTTPException(500, "TypeError")
                               ELSE IF ~granted.value
                               THEN HTTPException(403, "Insufficient organization permissions")
                               ELSE Proceed
                      policyReads == IF membership.threw \/ membership.row = <<>>
                                     THEN 0 ELSE 1
                  IN  IF tried # Proceed
                      \* catch (error): a store error, a TypeError and both 403
                      THEN Reject(HTTPException(403, "Organization permission denied"),
                                  1, policyReads)
                      \* only organizationId is written, organizationRole is not
                      ELSE Outcome(Proceed, organizationId, ctx.organizationRole,
                                   1, policyReads)

\* mutant of requireOrganizationRole: the arguments of the first c.set are
\* mixed up, the role is written as organizationId
requireOrganizationRoleSetsRoleAsId(roles) ==
    IF user = <<>>
    THEN Reject(HTTPException(401, "Authentication required"), 0, 0)
    ELSE LET organizationId == OrElse(ctx.organizationId, param)
         IN  IF organizationId = ""
             THEN Reject(HTTPException(400, "Organization ID required"), 0, 0)
             ELSE LET membership == findUnique(organizationId, user[1].id)
                      userRole == OrElse(membership.row[1].role, "member")
                  IN  IF \/ membership.threw
                         \/ membership.row = <<>>
                         \/ userRole \notin roles
                      THEN Reject(HTTPException(403, "Organization role check failed"), 1, 0)
                      ELSE Outcome(Proceed, userRole, userRole, 1, 0)

\* mutant of requireOrganizationRole: a system admin satisfies the role
\* requirement without a membership row
requireOrganizationRoleAdminPasses(roles) ==
    IF user = <<>>
    THEN Reject(HTTPException(401, "Authentication required"), 0, 0)
    ELSE LET organizationId == OrElse(ctx.organizationId, param)
         IN  IF organizationId = ""
             THEN Reject(HTTPException(400, "Organization ID required"), 0, 0)
             ELSE LET membership == findUnique(organizationId, user[1].id)
                      userRole == IF membership.row = <<>>
                                  THEN user[1].role
                                  ELSE OrElse(membership.row[1].role, "member")
                      tried == IF membership.threw
                               THEN HTTPException(500, "PrismaClientError")
                               ELSE IF membership.row = <<>> /\ user[1].role # "admin"
                               THEN HTTPException(403, "Not a member of this organization")
                               ELSE IF userRole \notin roles
                               THEN HTTPException(403, "Required organization role")
                               ELSE Proceed
                  IN  IF tried # Proceed
                      THEN Reject(HTTPException(403, "Organization role check failed"), 1, 0)
                      ELSE Outcome(Proceed, organizationId, userRole, 1, 0)

\* mutant of requireOrganizationRole: the membership is looked up by the
\* user alone and its organization is the one written to the context
requireOrganizationRoleAnyOrg(roles) ==
    IF user = <<>>
    THEN Reject(HTTPException(401, "Authentication required"), 0, 0)
    ELSE LET organizationId == OrElse(ctx.organizationId, param)
         IN  IF organizationId = ""
             THEN Reject(HTTPException(400, "Organization ID required"), 0, 0)
             ELSE LET rows == {m \in members : m.userId = user[1].id /\ m.role \in roles}
                  IN  IF storeFault \/ rows = {}
                      THEN Reject(HTTPException(403, "Organization role check failed"), 1, 0)
                      ELSE LET row == CHOOSE m \in rows : TRUE
                           IN  Outcome(Proceed, row.organizationId, row.role, 1, 0)

requireOrganizationRole(roles) ==
    IF user = <<>>
    THEN Reject(HTTPException(401, "Authentication required"), 0, 0)
    ELSE LET organizationId == OrElse(ctx.organizationId, param)
         IN  IF organizationId = ""
             THEN Reject(HTTPException(400, "Organization ID required"), 0, 0)
             ELSE LET membership == findUnique(organizationId, user[1].id)
                      userRole == OrElse(membership.row[1].role, "member")
                      tried == IF membership.threw
                               THEN HTTPException(500, "PrismaClientError")
                               ELSE IF membership.row = <<>>
                               THEN HTTPException(403, "Not a member of this organization")
                               ELSE IF userRole \notin roles
                               THEN HTTPException(403, "Required organization role")
                               ELSE Proceed
                  IN  IF tried # Proceed
                      THEN Reject(HTTPException(403, "Organization role check failed"), 1, 0)
                      ELSE Outcome(Proceed, organizationId, userRole, 1, 0)

-----------------------------------------------------------------------------
(* Routes: the guards a route declares in front of its handler             *)

\* the guards of the repository's routes (api/organizations.ts,
\* api/index.openapi.ts, api/admin.ts, api/index.ts) and further uses of the
\* same constructors
GuardMenu ==
    {Guard("requireSession", "", "", {}),
     Guard("requirePermission", "user", "read", {}),
     Guard("requirePermission", "user", "ban", {}),
     Guard("requirePermission", "project", "read", {}),
     Guard("requireRole", "", "", {"admin"}),
     Guard("requireOrganizationMember", "", "", {}),
     Guard("requireOrganizationPermission", "organization", "update", {}),
     Guard("requireOrganizationPermission", "team", "create", {}),
     Guard("requireOrganizationPermission", "project", "manage", {}),
     Guard("requireOrganizationPermission", "organization", "read", {}),
     Guard("requireOrganizationPermission", "organization", "delete", {}),
     Guard("requireOrganizationRole", "", "", {"owner"}),
     Guard("requireOrganizationRole", "", "", {"admin"}),
     Guard("requireOrganizationRole", "", "", {"owner", "admin"})}

\* the guards a route puts in front of a second guard
FirstGuards ==
    {g \in GuardMenu : g.kind \in {"requireSession", "requireOrganizationMember"}}

\* a route's chain: no guard, one guard, or two
Routes ==
    {<<>>} \cup {<<g>> : g \in GuardMenu}
           \cup {<<g, h>> : g \in FirstGuards, h \in GuardMenu}

-----------------------------------------------------------------------------
(* The request chain                                                       *)

Idle ==
    /\ user = <<>> /\ session = <<>> /\ param = "" /\ ctx = NoContext
    /\ chain = <<>> /\ pc = 0 /\ log = <<>> /\ res = NoResponse
    /\ handlerRan = FALSE

\* c.req.param("orgId"), c.req.query("organizationId"), c.req.query("orgId")
NoSources == [paramOrgId |-> "", queryOrganizationId |-> "", queryOrgId |-> ""]

\* a route whose handler the model does not look into
NoRoute == [handler |-> "", id |-> ""]

\* no request outside the guard chain, empty user and invitation tables
ExtIdle ==
    /\ sources = NoSources
    /\ route = NoRoute
    /\ users = {}
    /\ invitations = <<>>
    /\ now = 0
    /\ accept = <<>>

Init ==
    /\ members = {}
    /\ storeFault = FALSE
    /\ Idle
    /\ call = NoCall
    /\ ExtIdle

\* A request arrives: the session middleware sets user and session when the
\* auth service resolves a session, and neither when it returns null or
\* throws; the router matches a route and its parameters.
NewRequest ==
    /\ pc = 0
    /\ \E u \in {<<>>} \cup {<<p>> : p \in Principals} :
          /\ user' = u
          /\ session' = IF u = <<>> THEN <<>> ELSE <<[userId |-> u[1].id]>>
    /\ param' \in Orgs \cup {""}
    /\ chain' \in Routes
    /\ pc' = 1
    /\ ctx' = NoContext
    /\ log' = <<>>
    /\ res' = NoResponse
    /\ handlerRan' = FALSE
    /\ UNCHANGED <<members, storeFault, call, extVars>>

\* chain[pc] is a guard of this kind and the request is still pending
AtGuard(kind) ==
    /\ pc \in 1..Len(chain)
    /\ res = NoResponse
    /\ chain[pc].kind = kind

\* mutant of Dispatch: a rejection is recorded but the chain goes on
DispatchNoShortCircuit(o) ==
    /\ ctx' = [organizationId |-> o.organizationId,
               organizationRole |-> o.organizationRole]
    /\ log' = Append(log, [guard |-> chain[pc], verdict |-> o.verdict,
                           dbReads |-> o.dbReads,
                           policyReads |-> o.policyReads])
    /\ pc' = pc + 1
    /\ res' = res
    /\ UNCHANGED <<members, storeFault, user, session, param, chain,
                   handlerRan, call, extVars>>

\* compose's dispatch(i): the middleware runs; when it called next() the
\* chain moves on, when it threw or returned a response the request ends
\* with that response
Dispatch(o) ==
    /\ ctx' = [organizationId |-> o.organizationId,
               organizationRole |-> o.organizationRole]
    /\ log' = Append(log, [guard |-> chain[pc], verdict |-> o.verdict,
                           dbReads |-> o.dbReads,
                           policyReads |-> o.policyReads])
    /\ IF o.verdict = Proceed
       THEN pc' = pc + 1 /\ res' = res
       ELSE pc' = pc /\ res' = o.verdict
    /\ UNCHANGED <<members, storeFault, user, session, param, chain,
                   handlerRan, call, extVars>>

RequireSession ==
    /\ AtGuard("requireSession")
    /\ Dispatch(requireSession)

RequirePermission ==
    /\ AtGuard("requirePermission")
    /\ Dispatch(requirePermission(chain[pc].resource, chain[pc].action))

RequireRole ==
    /\ AtGuard("requireRole")
    /\ Dispatch(requireRole(chain[pc].roles))

RequireOrganizationMember ==
    /\ AtGuard("requireOrganizationMember")
    /\ Dispatch(requireOrganizationMember)

RequireOrganizationPermission ==
    /\ AtGuard("requireOrganizationPermission")
    /\ Dispatch(requireOrganizationPermission(chain[pc].resource, chain[pc].action))

RequireOrganizationRole ==
    /\ AtGuard("requireOrganizationRole")
    /\ Dispatch(requireOrganizationRole(chain[pc].roles))

\* every guard of the chain called next(): the route handler runs
Handler ==
    /\ pc = Len(chain) + 1
    /\ res = NoResponse
    /\ handlerRan' = TRUE
    /\ res' = [status |-> 200, message |-> "ok"]
    /\ UNCHANGED <<members, storeFault, user, session, param, ctx, chain, pc,
                   log, call, extVars>>

\* the response is sent and the per-request context is dropped
Respond ==
    /\ pc > 0
    /\ res # NoResponse
    /\ user' = <<>> /\ session' = <<>> /\ param' = "" /\ ctx' = NoContext
    /\ chain' = <<>> /\ pc' = 0 /\ log' = <<>> /\ res' = NoResponse
    /\ handlerRan' = FALSE
    /\ UNCHANGED <<members, storeFault, call, extVars>>

\* Other requests change the Membership Store at any time.  The unique index
\* on (organizationId, userId) refuses a second row for a pair.
MemberCreate ==
    /\ Cardinality(members) < MaxMembers
    /\ \E m \in MemberRows :
          /\ \A x \in members :
                ~(x.organizationId = m.organizationId /\ x.userId = m.userId)
          /\ members' = members \cup {m}
    /\ UNCHANGED <<storeFault, reqVars, call, extVars>>

MemberUpdateRole ==
    /\ \E m \in members, role \in OrgRoles :
          /\ role # m.role
          /\ members' = (members \ {m}) \cup {[m EXCEPT !.role = role]}
    /\ UNCHANGED <<storeFault, reqVars, call, extVars>>

MemberDelete ==
    /\ \E m \in members : members' = members \ {m}
    /\ UNCHANGED <<storeFault, reqVars, call, extVars>>

Next ==
    \/ NewRequest
    \/ RequireSession
    \/ RequirePermission
    \/ RequireRole
    \/ RequireOrganizationMember
    \/ RequireOrganizationPermission
    \/ RequireOrganizationRole
    \/ Handler
    \/ Respond
    \/ MemberCreate
    \/ MemberUpdateRole
    \/ MemberDelete

Spec == Init /\ [][Next]_vars

-----------------------------------------------------------------------------
(* The permission resolvers as pure functions of their arguments           *)

InitPolicy ==
    /\ members = {}
    /\ storeFault = FALSE
    /\ Idle
    /\ call = NoCall
    /\ ExtIdle

CallHasPermission ==
    /\ \E role \in AppRoleKeys, resource \in ResourceKeys, action \in ActionKeys :
          call' = [fn |-> "hasPermission", role |-> role, resource |-> resource,
                   action |-> action,
                   result |-> hasPermission(role, resource, action)]
    /\ UNCHANGED <<members, storeFault, reqVars, extVars>>

CallHasOrganizationPermission ==
    /\ \E role \in OrgRoleKeys, resource \in ResourceKeys, action \in ActionKeys :
          call' = [fn |-> "hasOrganizationPermission", role |-> role,
                   resource |-> resource, action |-> action,
                   result |-> hasOrganizationPermission(role, resource, action)]
    /\ UNCHANGED <<members, storeFault, reqVars, extVars>>

NextPolicy ==
    \/ CallHasPermission
    \/ CallHasOrganizationPermission

SpecPolicy == InitPolicy /\ [][NextPolicy]_vars

-----------------------------------------------------------------------------
(* Requests that carry an organization id outside the route parameter      *)
(* :organizationId, in front of one organization guard                     *)

OrgGuards ==
    {"requireOrganizationMember", "requireOrganizationPermission",
     "requireOrganizationRole"}

\* one route per organization guard
OrgRoutes ==
    {<<Guard("requireOrganizationMember", "", "", {})>>,
     <<Guard("requireOrganizationPermission", "organization", "read", {})>>,
     <<Guard("requireOrganizationRole", "", "", {"owner", "admin"})>>}

RequestSources ==
    [paramOrgId : Orgs \cup {""}, queryOrganizationId : Orgs \cup {""},
     queryOrgId : Orgs \cup {""}]

QueryRequest ==
    /\ pc = 0
    /\ \E u \in {<<>>} \cup {<<p>> : p \in Principals} :
          /\ user' = u
          /\ session' = IF u = <<>> THEN <<>> ELSE <<[userId |-> u[1].id]>>
    /\ param' \in Orgs \cup {""}
    /\ sources' \in RequestSources
    /\ chain' \in OrgRoutes
    /\ pc' = 1
    /\ ctx' = NoContext
    /\ log' = <<>>
    /\ res' = NoResponse
    /\ handlerRan' = FALSE
    /\ UNCHANGED <<members, storeFault, call, route, users, invitations, now,
                   accept>>

QueryRespond ==
    /\ pc > 0
    /\ res # NoResponse
    /\ user' = <<>> /\ session' = <<>> /\ param' = "" /\ ctx' = NoContext
    /\ chain' = <<>> /\ pc' = 0 /\ log' = <<>> /\ res' = NoResponse
    /\ handlerRan' = FALSE
    /\ sources' = NoSources
    /\ UNCHANGED <<members, storeFault, call, route, users, invitations, now,
                   accept>>

NextQuery ==
    \/ QueryRequest
    \/ RequireOrganizationMember
    \/ RequireOrganizationPermission
    \/ RequireOrganizationRole
    \/ Handler
    \/ QueryRespond
    \/ MemberCreate
    \/ MemberUpdateRole
    \/ MemberDelete

SpecQuery == Init /\ [][NextQuery]_vars

-----------------------------------------------------------------------------
(* The request chain over a Membership Store that can fail                 *)

\* the database becomes unreachable: every prisma call rejects
StoreFails ==
    /\ ~storeFault
    /\ storeFault' = TRUE
    /\ UNCHANGED <<members, reqVars, call, extVars>>

StoreRecovers ==
    /\ storeFault
    /\ storeFault' = FALSE
    /\ UNCHANGED <<members, reqVars, call, extVars>>

NextFault ==
    \/ Next
    \/ StoreFails
    \/ StoreRecovers

SpecFault == Init /\ [][NextFault]_vars

-----------------------------------------------------------------------------
(* The helpers a route handler calls: getOrganizationId (src/lib/auth.ts), *)
(* checkPermission and checkOrganizationPermission (rbac.ts)               *)

\* mutant of getOrganizationId: the query string is read before the route
getOrganizationIdQueryFirst ==
    LET fromContext == ctx.organizationId
        fromQuery == IF fromContext = ""
                     THEN OrElse(sources.queryOrganizationId, sources.queryOrgId)
                     ELSE fromContext
        fromRoute == IF fromQuery = ""
                     THEN OrElse(param, sources.paramOrgId)
                     ELSE fromQuery
    IN  IF fromRoute = "" THEN <<>> ELSE <<fromRoute>>

\* `orgId || null` after the context, the route and the query have been tried
getOrganizationId ==
    LET fromContext == ctx.organizationId
        fromRoute == IF fromContext = ""
                     THEN OrElse(param, sources.paramOrgId)
                     ELSE fromContext
        fromQuery == IF fromRoute = ""
                     THEN OrElse(sources.queryOrganizationId, sources.queryOrgId)
                     ELSE fromRoute
    IN  IF fromQuery = "" THEN <<>> ELSE <<fromQuery>>

\* what auth.api.hasPermission can do: throw, or resolve to an object whose
\* `success` is true, false or undefined
ApiOutcomes ==
    {[threw |-> TRUE, success |-> <<>>]}
        \cup {[threw |-> FALSE, success |-> s] : s \in {<<TRUE>>, <<FALSE>>, <<>>}}

\* `result.success || false` inside try, `return false` inside catch
permissionCheck(api) ==
    IF api.threw THEN Returned(FALSE) ELSE Returned(api.success = <<TRUE>>)

\* mutant of checkPermission: the call of auth.api is outside any try block
checkPermissionNoCatch(api) ==
    IF user = <<>> THEN Returned(FALSE)
    ELSE IF api.threw THEN Threw
    ELSE Returned(api.success = <<TRUE>>)

checkPermission(api) ==
    IF user = <<>> THEN Returned(FALSE) ELSE permissionCheck(api)

checkOrganizationPermission(organizationId, api) ==
    LET orgId == OrElse(organizationId, OrElse(ctx.organizationId, param))
    IN  IF user = <<>> \/ orgId = "" THEN Returned(FALSE) ELSE permissionCheck(api)

\* a handler's state when it calls a helper: any principal or none, any
\* organization id in the context, the route and the query
InitHelpers ==
    /\ members = {}
    /\ storeFault = FALSE
    /\ \E u \in {<<>>} \cup {<<p>> : p \in Principals} :
          /\ user = u
          /\ session = IF u = <<>> THEN <<>> ELSE <<[userId |-> u[1].id]>>
    /\ param \in Orgs \cup {""}
    /\ ctx \in [organizationId : Orgs \cup {""}, organizationRole : {""}]
    /\ chain = <<>> /\ pc = 0 /\ log = <<>> /\ res = NoResponse
    /\ handlerRan = FALSE
    /\ call = NoCall
    /\ sources \in [paramOrgId : Orgs \cup {""},
                    queryOrganizationId : Orgs \cup {""},
                    queryOrgId : Orgs \cup {""}]
    /\ route = NoRoute
    /\ users = {}
    /\ invitations = <<>>
    /\ now = 0
    /\ accept = <<>>

GetOrganizationId ==
    /\ call' = [fn |-> "getOrganizationId", result |-> getOrganizationId]
    /\ UNCHANGED <<members, storeFault, reqVars, extVars>>

\* the resource and the action are handed to auth.api.hasPermission as they
\* are: its outcome stands for every pair of them
CheckPermission ==
    /\ \E api \in ApiOutcomes :
          call' = [fn |-> "checkPermission", organizationId |-> "", api |-> api,
                   result |-> checkPermission(api)]
    /\ UNCHANGED <<members, storeFault, reqVars, extVars>>

CheckOrganizationPermission ==
    /\ \E api \in ApiOutcomes, organizationId \in Orgs \cup {""} :
          call' = [fn |-> "checkOrganizationPermission",
                   organizationId |-> organizationId, api |-> api,
                   result |-> checkOrganizationPermission(organizationId, api)]
    /\ UNCHANGED <<members, storeFault, reqVars, extVars>>

NextHelpers ==
    \/ GetOrganizationId
    \/ CheckPermission
    \/ CheckOrganizationPermission

SpecHelpers == InitHelpers /\ [][NextHelpers]_vars

-----------------------------------------------------------------------------
(* Invitations: POST /me/invitations/:invitationId/accept and the requests *)
(* that create and remove invitation rows.  Table invitation is a sequence *)
(* indexed by the row's id; a deleted row leaves <<>> (ids are not reused).*)
(* Memberships come from acceptances and go by MemberDelete.               *)
(* The clock counts validity periods of an invitation.                     *)

MaxInvitations == 2
MaxTime == 2

\* the requests that can be in progress at the same time
Requests == {"r1", "r2"}

\* user.email, unique per user
EmailOf(userId) == IF userId = "u1" THEN "u1@example.com" ELSE "u2@example.com"

InviteRoles == {"member", "admin"}

NoAccept == [pc |-> "idle", userId |-> "", invitationId |-> 0,
             invitation |-> <<>>, status |-> 0]

InitInvite ==
    /\ members = {}
    /\ storeFault = FALSE
    /\ Idle
    /\ call = NoCall
    /\ sources = NoSources
    /\ route = NoRoute
    /\ users = {}
    /\ invitations = <<>>
    /\ now = 0
    /\ accept = [r \in Requests |-> NoAccept]

\* the rows of table invitation
LiveInvitations ==
    {invitations[i][1] : i \in {j \in 1..Len(invitations) : invitations[j] # <<>>}}

\* auth.api.inviteUser: a row with a fresh id; the unique index on
\* (organizationId, email) refuses a second row for a pair
Invite ==
    /\ Len(invitations) < MaxInvitations
    /\ \E o \in Orgs, u \in Users, role \in InviteRoles :
          /\ \A x \in LiveInvitations :
                ~(x.organizationId = o /\ x.email = EmailOf(u))
          /\ invitations' = Append(invitations,
                <<[organizationId |-> o, email |-> EmailOf(u), role |-> role,
                   expiresAt |-> now + 1]>>)
    /\ UNCHANGED <<members, storeFault, reqVars, call, sources, route, users,
                   now, accept>>

\* prisma.invitation.delete of a row that exists
CancelInvitation ==
    /\ \E id \in 1..Len(invitations) :
          /\ invitations[id] # <<>>
          /\ invitations' = [invitations EXCEPT ![id] = <<>>]
    /\ UNCHANGED <<members, storeFault, reqVars, call, sources, route, users,
                   now, accept>>

\* findFirst by id and the principal's email, then delete
RejectInvitation ==
    /\ \E id \in 1..Len(invitations), u \in Users :
          /\ invitations[id] # <<>>
          /\ invitations[id][1].email = EmailOf(u)
          /\ invitations' = [invitations EXCEPT ![id] = <<>>]
    /\ UNCHANGED <<members, storeFault, reqVars, call, sources, route, users,
                   now, accept>>

Tick ==
    /\ now < MaxTime
    /\ now' = now + 1
    /\ UNCHANGED <<members, storeFault, reqVars, call, sources, route, users,
                   invitations, accept>>

\* prisma.invitation.findFirst({where: {id, email}})
findFirst(invitationId, email) ==
    IF /\ invitationId \in 1..Len(invitations)
       /\ invitations[invitationId] # <<>>
       /\ invitations[invitationId][1].email = email
    THEN invitations[invitationId]
    ELSE <<>>

\* mutant of expired: the handler does not look at expiresAt
expiredNever(invitation) == FALSE

\* new Date() > invitation.expiresAt
expired(invitation) == now > invitation.expiresAt

\* mutant of transaction: the delete does not fail for a row that is gone
transactionDeleteMany(userId, invitationId, invitation) ==
    IF \E m \in members : /\ m.organizationId = invitation.organizationId
                          /\ m.userId = userId
    THEN [threw |-> TRUE, members |-> members, invitations |-> invitations]
    ELSE [threw |-> FALSE,
          members |-> members \cup
              {[organizationId |-> invitation.organizationId,
                userId |-> userId, role |-> invitation.role]},
          invitations |-> [invitations EXCEPT ![invitationId] = <<>>]]

\* mutant of transaction: table organization_member has no unique index
transactionNoUniqueIndex(userId, invitationId, invitation) ==
    IF invitations[invitationId] = <<>>
    THEN [threw |-> TRUE, members |-> members, invitations |-> invitations]
    ELSE [threw |-> FALSE,
          members |-> members \cup
              {[organizationId |-> invitation.organizationId,
                userId |-> userId, role |-> invitation.role]},
          invitations |-> [invitations EXCEPT ![invitationId] = <<>>]]

\* prisma.$transaction([member.create, invitation.delete]): both or none.
\* member.create fails on the unique index (organizationId, userId),
\* invitation.delete fails when the row is gone.
transaction(userId, invitationId, invitation) ==
    IF \/ \E m \in members : /\ m.organizationId = invitation.organizationId
                             /\ m.userId = userId
       \/ invitations[invitationId] = <<>>
    THEN [threw |-> TRUE, members |-> members, invitations |-> invitations]
    ELSE [threw |-> FALSE,
          members |-> members \cup
              {[organizationId |-> invitation.organizationId,
                userId |-> userId, role |-> invitation.role]},
          invitations |-> [invitations EXCEPT ![invitationId] = <<>>]]

\* the handler up to the transaction: the 404 and the 400 are thrown inside
\* the try block and leave it as 500 "Failed to accept invitation"
AcceptRead(r) ==
    /\ accept[r].pc = "idle"
    /\ \E u \in Users, id \in 1..MaxInvitations :
          LET invitation == findFirst(id, EmailOf(u))
          IN  accept' = [accept EXCEPT ![r] =
                  IF invitation = <<>> \/ expired(invitation[1])
                  THEN [NoAccept EXCEPT !.pc = "done", !.status = 500]
                  ELSE [pc |-> "tx", userId |-> u, invitationId |-> id,
                        invitation |-> invitation, status |-> 0]]
    /\ UNCHANGED <<members, storeFault, reqVars, call, sources, route, users,
                   invitations, now>>

\* the transaction and the response
AcceptCommit(r) ==
    /\ accept[r].pc = "tx"
    /\ LET tx == transaction(accept[r].userId, accept[r].invitationId,
                             accept[r].invitation[1])
       IN  /\ members' = tx.members
           /\ invitations' = tx.invitations
           /\ accept' = [accept EXCEPT ![r] =
                  [NoAccept EXCEPT !.pc = "done",
                                   !.status = IF tx.threw THEN 500 ELSE 200]]
    /\ UNCHANGED <<storeFault, reqVars, call, sources, route, users, now>>

AcceptRespond(r) ==
    /\ accept[r].pc = "done"
    /\ accept' = [accept EXCEPT ![r] = NoAccept]
    /\ UNCHANGED <<members, storeFault, reqVars, call, sources, route, users,
                   invitations, now>>

NextInvite ==
    \/ Invite
    \/ CancelInvitation
    \/ RejectInvitation
    \/ Tick
    \/ \E r \in Requests : AcceptRead(r)
    \/ \E r \in Requests : AcceptCommit(r)
    \/ \E r \in Requests : AcceptRespond(r)
    \/ MemberDelete

SpecInvite == InitInvite /\ [][NextInvite]_vars

-----------------------------------------------------------------------------
(* Admin user management: DELETE /admin/users/:id behind                   *)
(* adminRouter.use("*", requireRole("admin"))                              *)

\* the :id values a request can carry: the users and an id of no row
TargetIds == Users \cup {"u3"}

\* tables of user rows with one row per id
UserTables ==
    {t \in SUBSET Principals : \A x, y \in t : x.id = y.id => x = y}

InitAdmin ==
    /\ members = {}
    /\ storeFault = FALSE
    /\ Idle
    /\ call = NoCall
    /\ sources = NoSources
    /\ route = NoRoute
    /\ users \in UserTables
    /\ invitations = <<>>
    /\ now = 0
    /\ accept = <<>>

\* the session middleware resolves a principal of the user table, or none
AdminRequest ==
    /\ pc = 0
    /\ \E u \in {<<>>} \cup {<<p>> : p \in users} :
          /\ user' = u
          /\ session' = IF u = <<>> THEN <<>> ELSE <<[userId |-> u[1].id]>>
    /\ route' \in [handler : {"deleteUser", "banUser"}, id : TargetIds]
    /\ chain' = <<Guard("requireRole", "", "", {"admin"})>>
    /\ param' = ""
    /\ pc' = 1
    /\ ctx' = NoContext
    /\ log' = <<>>
    /\ res' = NoResponse
    /\ handlerRan' = FALSE
    /\ UNCHANGED <<members, storeFault, call, sources, users, invitations, now,
                   accept>>

\* mutant of deleteUser: no check of the target against the acting principal
deleteUserAnyTarget(currentUser, userId) ==
    IF \E row \in users : row.id = userId
    THEN [res |-> [status |-> 200, message |-> "User deleted successfully"],
          users |-> {row \in users : row.id # userId},
          members |-> {m \in members : m.userId # userId}]
    ELSE [res |-> HTTPException(500, "Failed to delete user"),
          users |-> users, members |-> members]

\* the handler: the self-deletion check, then prisma.user.delete, which
\* throws for an id of no row and takes the user's memberships with it
\* (ON DELETE CASCADE)
deleteUser(currentUser, userId) ==
    IF currentUser # <<>> /\ currentUser[1].id = userId
    THEN [res |-> HTTPException(400, "Cannot delete your own account"),
          users |-> users, members |-> members]
    ELSE IF \E row \in users : row.id = userId
    THEN [res |-> [status |-> 200, message |-> "User deleted successfully"],
          users |-> {row \in users : row.id # userId},
          members |-> {m \in members : m.userId # userId}]
    ELSE [res |-> HTTPException(500, "Failed to delete user"),
          users |-> users, members |-> members]

DeleteUser ==
    /\ pc = Len(chain) + 1
    /\ res = NoResponse
    /\ route.handler = "deleteUser"
    /\ LET done == deleteUser(user, route.id)
       IN  /\ res' = done.res
           /\ users' = done.users
           /\ members' = done.members
    /\ handlerRan' = TRUE
    /\ UNCHANGED <<storeFault, user, session, param, ctx, chain, pc, log, call,
                   sources, route, invitations, now, accept>>

\* what the call of a better-auth endpoint can do, as far as the handler
\* around it can tell: it takes effect, or it throws
LibraryOutcomes == {"done", "throws"}

\* the handler: auth.api.banUser, whose failure leaves the catch block as
\* 500.  The handler does not compare the target with the principal.
banUser(userId, outcome) ==
    IF outcome = "throws" \/ ~\E row \in users : row.id = userId
    THEN [res |-> HTTPException(500, "Failed to ban user"), users |-> users]
    ELSE [res |-> [status |-> 200, message |-> "user"],
          users |-> {IF row.id = userId THEN [row EXCEPT !.banned = TRUE]
                     ELSE row : row \in users}]

BanUser ==
    /\ pc = Len(chain) + 1
    /\ res = NoResponse
    /\ route.handler = "banUser"
    /\ \E outcome \in LibraryOutcomes :
          LET done == banUser(route.id, outcome)
          IN  /\ res' = done.res
              /\ users' = done.users
    /\ handlerRan' = TRUE
    /\ UNCHANGED <<members, storeFault, user, session, param, ctx, chain, pc,
                   log, call, sources, route, invitations, now, accept>>

AdminRespond ==
    /\ pc > 0
    /\ res # NoResponse
    /\ user' = <<>> /\ session' = <<>> /\ param' = "" /\ ctx' = NoContext
    /\ chain' = <<>> /\ pc' = 0 /\ log' = <<>> /\ res' = NoResponse
    /\ handlerRan' = FALSE
    /\ route' = NoRoute
    /\ UNCHANGED <<members, storeFault, call, sources, users, invitations, now,
                   accept>>

NextAdmin ==
    \/ AdminRequest
    \/ RequireRole
    \/ DeleteUser
    \/ BanUser
    \/ AdminRespond

SpecAdmin == InitAdmin /\ [][NextAdmin]_vars

-----------------------------------------------------------------------------
(* Member management: PUT /organizations/:organizationId/members/:memberId *)
(* behind the session check and requireOrganizationPermission("member",    *)
(* "update")                                                               *)

MemberUpdateRoute ==
    <<Guard("requireSession", "", "", {}),
      Guard("requireOrganizationPermission", "member", "update", {})>>

MemberRequest ==
    /\ pc = 0
    /\ \E u \in {<<>>} \cup {<<p>> : p \in Principals} :
          /\ user' = u
          /\ session' = IF u = <<>> THEN <<>> ELSE <<[userId |-> u[1].id]>>
    /\ param' \in Orgs
    /\ route' \in [handler : {"updateMemberRole"}, id : Users]
    /\ chain' = MemberUpdateRoute
    /\ pc' = 1
    /\ ctx' = NoContext
    /\ log' = <<>>
    /\ res' = NoResponse
    /\ handlerRan' = FALSE
    /\ UNCHANGED <<members, storeFault, call, sources, users, invitations, now,
                   accept>>

\* the handler: auth.api.updateMemberRole({organizationId, userId: memberId,
\* role}), whose failure leaves the catch block as 500.  The handler looks
\* neither at the target's present role nor at the actor's.
updateMemberRole(organizationId, memberId, role, outcome) ==
    LET rows == {m \in members : /\ m.organizationId = organizationId
                                 /\ m.userId = memberId}
    IN  IF outcome = "throws" \/ rows = {}
        THEN [res |-> HTTPException(500, "Failed to update member role"),
              members |-> members]
        ELSE [res |-> [status |-> 200, message |-> "member"],
              members |-> (members \ rows)
                              \cup {[m EXCEPT !.role = role] : m \in rows}]

UpdateMemberRole ==
    /\ pc = Len(chain) + 1
    /\ res = NoResponse
    /\ route.handler = "updateMemberRole"
    /\ \E role \in OrgRoles, outcome \in LibraryOutcomes :
          LET done == IF user = <<>>
                      THEN [res |-> HTTPException(401, "Authentication required"),
                            members |-> members]
                      ELSE updateMemberRole(param, route.id, role, outcome)
          IN  /\ res' = done.res
              /\ members' = done.members
    /\ handlerRan' = TRUE
    /\ UNCHANGED <<storeFault, user, session, param, ctx, chain, pc, log, call,
                   sources, route, users, invitations, now, accept>>

MemberRespond ==
    /\ pc > 0
    /\ res # NoResponse
    /\ user' = <<>> /\ session' = <<>> /\ param' = "" /\ ctx' = NoContext
    /\ chain' = <<>> /\ pc' = 0 /\ log' = <<>> /\ res' = NoResponse
    /\ handlerRan' = FALSE
    /\ route' = NoRoute
    /\ UNCHANGED <<members, storeFault, call, sources, users, invitations, now,
                   accept>>

NextMembers ==
    \/ MemberRequest
    \/ RequireSession
    \/ RequireOrganizationPermission
    \/ UpdateMemberRole
    \/ MemberRespond
    \/ MemberCreate
    \/ MemberDelete

SpecMembers == Init /\ [][NextMembers]_vars

-----------------------------------------------------------------------------
(* The session middleware of apiRouter and the routes under /me/* and      *)
(* /organizations/*, whose first middleware is the session check           *)

\* what auth.api.getSession can do: throw, resolve to null, or resolve to a
\* session and its user
SessionOutcomes ==
    {[threw |-> TRUE, principal |-> <<>>]}
        \cup {[threw |-> FALSE, principal |-> u] :
                 u \in {<<>>} \cup {<<p>> : p \in Principals}}

\* apiRouter.use("*"): user and session are set together when a session is
\* resolved; an error is logged and the request goes on without them
sessionMiddleware(outcome) ==
    IF outcome.threw \/ outcome.principal = <<>>
    THEN [user |-> <<>>, session |-> <<>>]
    ELSE [user |-> outcome.principal,
          session |-> <<[userId |-> outcome.principal[1].id]>>]

SessionRoutes ==
    {<<g>> : g \in {h \in GuardMenu : h.kind = "requireSession"}}
        \cup {<<g, h>> : g \in {x \in GuardMenu : x.kind = "requireSession"},
                         h \in GuardMenu}

SessionRequest ==
    /\ pc = 0
    /\ \E outcome \in SessionOutcomes :
          /\ user' = sessionMiddleware(outcome).user
          /\ session' = sessionMiddleware(outcome).session
          /\ call' = [fn |-> "getSession", threw |-> outcome.threw,
                      principal |-> outcome.principal]
    /\ param' \in Orgs \cup {""}
    /\ chain' \in SessionRoutes
    /\ pc' = 1
    /\ ctx' = NoContext
    /\ log' = <<>>
    /\ res' = NoResponse
    /\ handlerRan' = FALSE
    /\ UNCHANGED <<members, storeFault, extVars>>

NextSession ==
    \/ SessionRequest
    \/ RequireSession
    \/ RequirePermission
    \/ RequireRole
    \/ RequireOrganizationMember
    \/ RequireOrganizationPermission
    \/ RequireOrganizationRole
    \/ Handler
    \/ Respond
    \/ MemberCreate
    \/ MemberDelete

SpecSession == Init /\ [][NextSession]_vars

-----------------------------------------------------------------------------
(* canPerformAction and isAdmin: src/lib/auth.ts                           *)

\* mutant of isAdmin: the banned flag is not read
isAdminIgnoresBan(userId) ==
    IF storeFault THEN FALSE
    ELSE \E row \in users : row.id = userId /\ row.role = "admin"

\* prisma.user.findUnique and `user?.role === "admin" && !user?.banned`;
\* false from the catch block when the store throws
isAdmin(userId) ==
    IF storeFault THEN FALSE
    ELSE \E row \in users : /\ row.id = userId
                            /\ row.role = "admin" /\ ~row.banned

\* isAdmin first, then auth.api.hasPermission and `result.success || false`;
\* false from the catch block.  lookups counts the calls of auth.api.
canPerformAction(userId, api) ==
    IF isAdmin(userId)
    THEN [value |-> TRUE, lookups |-> 0]
    ELSE [value |-> IF api.threw THEN FALSE ELSE api.success = <<TRUE>>,
          lookups |-> 1]

\* any user table, the store up or down
InitAccess ==
    /\ members = {}
    /\ storeFault \in BOOLEAN
    /\ Idle
    /\ call = NoCall
    /\ sources = NoSources
    /\ route = NoRoute
    /\ users \in UserTables
    /\ invitations = <<>>
    /\ now = 0
    /\ accept = <<>>

\* organizationId, resource and action are handed to auth.api.hasPermission
\* as they are: its outcome stands for every triple of them
CanPerformAction ==
    /\ \E userId \in TargetIds, api \in ApiOutcomes :
          call' = [fn |-> "canPerformAction", userId |-> userId, api |-> api,
                   result |-> canPerformAction(userId, api)]
    /\ UNCHANGED <<members, storeFault, reqVars, extVars>>

NextAccess == CanPerformAction

SpecAccess == InitAccess /\ [][NextAccess]_vars

-----------------------------------------------------------------------------
(* The three requests that consume an invitation: accept and reject (each  *)
(* a findFirst and then a write) and cancel, in any interleaving           *)

\* the reject handler up to the delete: the 404 is thrown inside the try
\* block and leaves it as 500 "Failed to reject invitation"
RejectRead(r) ==
    /\ accept[r].pc = "idle"
    /\ \E u \in Users, id \in 1..MaxInvitations :
          LET invitation == findFirst(id, EmailOf(u))
          IN  accept' = [accept EXCEPT ![r] =
                  IF invitation = <<>>
                  THEN [NoAccept EXCEPT !.pc = "done", !.status = 500]
                  ELSE [pc |-> "rx", userId |-> u, invitationId |-> id,
                        invitation |-> invitation, status |-> 0]]
    /\ UNCHANGED <<members, storeFault, reqVars, call, sources, route, users,
                   invitations, now>>

\* prisma.invitation.delete({where: {id}}) throws when the row is gone
RejectCommit(r) ==
    /\ accept[r].pc = "rx"
    /\ LET gone == invitations[accept[r].invitationId] = <<>>
       IN  /\ invitations' = IF gone THEN invitations
                             ELSE [invitations EXCEPT
                                      ![accept[r].invitationId] = <<>>]
           /\ accept' = [accept EXCEPT ![r] =
                  [NoAccept EXCEPT !.pc = "done",
                                   !.status = IF gone THEN 500 ELSE 200]]
    /\ UNCHANGED <<members, storeFault, reqVars, call, sources, route, users,
                   now>>

NextLifecycle ==
    \/ Invite
    \/ CancelInvitation
    \/ \E r \in Requests : AcceptRead(r)
    \/ \E r \in Requests : AcceptCommit(r)
    \/ \E r \in Requests : RejectRead(r)
    \/ \E r \in Requests : RejectCommit(r)
    \/ \E r \in Requests : AcceptRespond(r)

SpecLifecycle == InitInvite /\ [][NextLifecycle]_vars

-----------------------------------------------------------------------------
(* The policy the specification lists, as (role, resource, action) triples *)

Grant(role, resource, actions) == {<<role, resource, a>> : a \in actions}

Crud == {"create", "read", "update", "delete"}

ListedAppPolicy ==
    Grant("admin", "user", Crud \cup {"ban", "impersonate"})
    \cup Grant("admin", "project", Crud \cup {"manage"})
    \cup Grant("admin", "admin", {"read", "manage"})
    \cup Grant("admin", "organization", Crud \cup {"manage", "invite"})
    \cup Grant("admin", "team", Crud \cup {"manage"})
    \cup Grant("admin", "invitation", Crud \cup {"cancel"})
    \cup Grant("admin", "member", Crud)
    \cup Grant("user", "project", {"create", "read", "update"})
    \cup Grant("user", "organization", {"read"})
    \cup Grant("user", "team", {"read"})
    \cup Grant("user", "invitation", {"read"})
    \cup Grant("user", "member", {"read"})

ListedOrgPolicy ==
    Grant("owner", "project", Crud \cup {"manage"})
    \cup Grant("owner", "organization", {"read", "update", "manage", "invite"})
    \cup Grant("owner", "team", Crud \cup {"manage"})
    \cup Grant("owner", "invitation", Crud \cup {"cancel"})
    \cup Grant("owner", "member", Crud)
    \cup Grant("owner", "user", {"read"})
    \cup Grant("admin", "project", Crud)
    \cup Grant("admin", "organization", {"read", "update", "invite"})
    \cup Grant("admin", "team", Crud)
    \cup Grant("admin", "invitation", Crud \cup {"cancel"})
    \cup Grant("admin", "member", Crud)
    \cup Grant("admin", "user", {"read"})
    \cup Grant("member", "project", {"create", "read", "update"})
    \cup Grant("member", "organization", {"read"})
    \cup Grant("member", "team", {"read"})
    \cup Grant("member", "invitation", {"read"})
    \cup Grant("member", "member", {"read"})
    \cup Grant("member", "user", {"read"})

\* the policy table a resolver call is about
ListedPolicy(fn) ==
    IF fn = "hasPermission" THEN ListedAppPolicy ELSE ListedOrgPolicy

-----------------------------------------------------------------------------
(* Claims                                                                  *)

\* the principal of the request is a system admin, banned or not as given
SystemAdmin(banned) ==
    /\ user # <<>>
    /\ user[1].role = "admin"
    /\ user[1].banned = banned

\* the membership rows of the principal in organization o
RowsOf(o) ==
    {m \in members : m.organizationId = o /\ m.userId = user[1].id}

\* a guard runs in this step; Entry is what it did
GuardRuns(kind) ==
    /\ AtGuard(kind)
    /\ Len(log') = Len(log) + 1

Entry == log'[Len(log')]

\* the organization id a guard resolves: the context's, else the route's
Resolved == OrElse(ctx.organizationId, param)

\* C1: a request whose principal is a system admin and not banned passes
\* requireOrganizationPermission(resource, action) for every organization
\* and every (resource, action), with or without a membership row.
C1_AdminBypass ==
    \A i \in 1..Len(log) :
        (/\ log[i].guard.kind = "requireOrganizationPermission"
         /\ SystemAdmin(FALSE)
         /\ param # "")
        => log[i].verdict = Proceed

\* C2: a banned system admin gets no bypass in
\* requireOrganizationPermission: the guard admits exactly when the store
\* holds a row for (organization, principal) whose role the organization
\* policy grants (resource, action), and so rejects when there is no row.
C2_BannedAdminNoBypass ==
    [][(/\ GuardRuns("requireOrganizationPermission")
        /\ SystemAdmin(TRUE)
        /\ Resolved # "")
       => /\ Entry.verdict = Proceed
             <=> \E m \in RowsOf(Resolved) :
                    <<m.role, chain[pc].resource, chain[pc].action>>
                        \in ListedOrgPolicy
          /\ RowsOf(Resolved) = {} => Entry.verdict.status = 403]_vars

\* a banned system admin without a membership row was rejected by
\* requireOrganizationPermission
C2_Witness ==
    /\ SystemAdmin(TRUE)
    /\ param # ""
    /\ Len(log) = 1
    /\ log[1].guard.kind = "requireOrganizationPermission"
    /\ log[1].verdict.status = 403
    /\ log[1].dbReads = 1
    /\ RowsOf(param) = {}

\* C3: hasPermission and hasOrganizationPermission return false and raise
\* no error for every (role, resource, action) their policy table does not
\* list, an absent role key or resource key included.
C3_FailClosedNoError ==
    (/\ call.fn # ""
     /\ <<call.role, call.resource, call.action>> \notin ListedPolicy(call.fn))
    => call.result = Returned(FALSE)

\* C4: for the roles of each table, hasPermission and
\* hasOrganizationPermission return true exactly for the triples the
\* specification lists.
C4_PolicyTable ==
    (/\ call.fn # ""
     /\ call.role \in (IF call.fn = "hasPermission"
                       THEN {"admin", "user"}
                       ELSE {"owner", "admin", "member"}))
    => call.result =
          Returned(<<call.role, call.resource, call.action>>
                       \in ListedPolicy(call.fn))

\* organization member was asked for organization.update and was denied
C4_Witness ==
    /\ call.fn = "hasOrganizationPermission"
    /\ call.role = "member"
    /\ call.resource = "organization"
    /\ call.action = "update"
    /\ call.result = Returned(FALSE)

\* the principal's system role as the guards read it: user.role || "user"
SystemRole == OrElse(user[1].role, "user")

\* the principal has app role user and is organization admin somewhere
UserButOrgAdmin ==
    /\ user # <<>>
    /\ user[1].role = "user"
    /\ \E m \in members : m.userId = user[1].id /\ m.role = "admin"

\* C5: the verdicts of requireRole and requirePermission are decided by the
\* principal's systemRole alone, whatever the Membership Store and the
\* context hold: a principal with app role user who is organization admin
\* of O is rejected by requireRole("admin") and by
\* requirePermission("user", "ban") and admitted by
\* requireOrganizationPermission("team", "create") for O.
C5_RoleSpaceIsolation ==
    [][/\ (GuardRuns("requireRole") /\ user # <<>>)
          => (Entry.verdict = Proceed <=> SystemRole \in chain[pc].roles)
       /\ (GuardRuns("requirePermission") /\ user # <<>>)
          => (Entry.verdict = Proceed
                <=> <<SystemRole, chain[pc].resource, chain[pc].action>>
                        \in ListedAppPolicy)
       /\ (GuardRuns("requireRole") /\ UserButOrgAdmin
             /\ chain[pc].roles = {"admin"})
          => Entry.verdict.status = 403
       /\ (GuardRuns("requirePermission") /\ UserButOrgAdmin
             /\ chain[pc].resource = "user" /\ chain[pc].action = "ban")
          => Entry.verdict # Proceed
       /\ (GuardRuns("requireOrganizationPermission") /\ user # <<>>
             /\ user[1].role = "user" /\ Resolved # ""
             /\ chain[pc].resource = "team" /\ chain[pc].action = "create"
             /\ \E m \in RowsOf(Resolved) : m.role = "admin")
          => Entry.verdict = Proceed]_vars

\* a principal with app role user was admitted as organization admin by
\* requireOrganizationMember and then rejected by requireRole("admin")
C5_Witness ==
    /\ UserButOrgAdmin
    /\ Len(log) = 2
    /\ log[1].guard.kind = "requireOrganizationMember"
    /\ ctx.organizationRole = "admin"
    /\ log[2].guard.kind = "requireRole"
    /\ log[2].verdict.status = 403

\* C6: requireOrganizationRole(roles) admits exactly when the store holds a
\* row for (resolved organization, principal) whose role is in roles; a
\* principal without a row is rejected with 403, a system admin included.
C6_OrgRoleNeedsMembership ==
    [][GuardRuns("requireOrganizationRole")
       => /\ Entry.verdict = Proceed
             <=> (/\ user # <<>>
                  /\ Resolved # ""
                  /\ \E m \in RowsOf(Resolved) : m.role \in chain[pc].roles)
          /\ (user # <<>> /\ Resolved # "" /\ RowsOf(Resolved) = {})
             => Entry.verdict.status = 403]_vars

\* an unbanned system admin without a membership row was rejected by
\* requireOrganizationRole("admin")
C6_Witness ==
    /\ SystemAdmin(FALSE)
    /\ param # ""
    /\ RowsOf(param) = {}
    /\ Len(log) = 1
    /\ log[1].guard.kind = "requireOrganizationRole"
    /\ log[1].guard.roles = {"admin"}
    /\ log[1].verdict.status = 403
    /\ ~handlerRan

\* C7: the guards of a chain run one at a time in declared order; once a
\* guard rejects, no later guard and not the handler runs and the request
\* ends with that guard's error; the handler runs only after every guard of
\* the chain admitted.
C7_ShortCircuit ==
    /\ Len(log) <= Len(chain)
    /\ \A i \in 1..Len(log) :
          /\ log[i].guard = chain[i]
          /\ log[i].verdict # Proceed
             => (i = Len(log) /\ res = log[i].verdict /\ ~handlerRan)
    /\ handlerRan
       => (/\ Len(log) = Len(chain)
           /\ \A i \in 1..Len(log) : log[i].verdict = Proceed)

\* the first guard of a chain of two rejected: the second never ran and
\* the request ended with the first guard's error
C7_Witness ==
    /\ Len(chain) = 2
    /\ Len(log) = 1
    /\ log[1].verdict.status = 403
    /\ res = log[1].verdict
    /\ ~handlerRan

\* C8: a guard that rejects leaves the context and the Membership Store as
\* they were; the context changes during a request only when a guard
\* admits; no guard writes to the Membership Store.
C8_RejectionHasNoEffect ==
    [][/\ (pc \in 1..Len(chain) /\ Len(log') = Len(log) + 1)
          => /\ members' = members
             /\ Entry.verdict # Proceed => ctx' = ctx
       /\ (pc > 0 /\ pc' > 0 /\ ctx' # ctx)
          => (Len(log') = Len(log) + 1 /\ Entry.verdict = Proceed)]_vars

\* a guard rejected after an earlier guard of the chain had written the
\* context, which still holds what the earlier guard wrote
C8_Witness ==
    /\ Len(log) = 2
    /\ log[1].guard.kind = "requireOrganizationMember"
    /\ log[2].guard.kind = "requireOrganizationRole"
    /\ log[2].verdict.status = 403
    /\ ctx.organizationId = param
    /\ ctx.organizationRole \in OrgRoles

RbacGuards ==
    {"requireRole", "requirePermission", "requireOrganizationMember",
     "requireOrganizationPermission", "requireOrganizationRole"}

\* C9: for a request with no principal every guard rejects with
\* Unauthenticated, without a query to the Membership Store or a look into
\* a policy table, also when no organization id can be resolved.
C9_UnauthenticatedFirst ==
    user = <<>>
    => \A i \in 1..Len(log) :
          log[i].guard.kind \in RbacGuards
          => /\ log[i].verdict = HTTPException(401, "Authentication required")
             /\ log[i].dbReads = 0
             /\ log[i].policyReads = 0

\* a request with neither a principal nor an organization id was rejected
\* by requireOrganizationMember as Unauthenticated
C9_Witness ==
    /\ user = <<>>
    /\ param = ""
    /\ Len(log) = 1
    /\ log[1].guard.kind = "requireOrganizationMember"
    /\ log[1].verdict.status = 401
    /\ res.status = 401

\* C10: requirePermission(resource, action) rejects with Unauthenticated
\* (401) when the principal or the session is missing, with Forbidden (403)
\* when the app-level policy does not grant (resource, action) to the
\* principal's systemRole, and otherwise calls the next middleware.
C10_RequirePermissionVerdicts ==
    \A i \in 1..Len(log) :
        log[i].guard.kind = "requirePermission"
        => log[i].verdict.status =
              IF user = <<>> \/ session = <<>> THEN 401
              ELSE IF <<SystemRole, log[i].guard.resource, log[i].guard.action>>
                         \in ListedAppPolicy
              THEN 0
              ELSE 403

\* C11: requireOrganizationMember rejects with Unauthenticated (401) when
\* there is no principal, else with BadRequest (400) when no organization
\* id is resolved, else with Forbidden (403) when the store has no row for
\* (organization, principal); when it admits, the context holds the
\* resolved organizationId and the row's role as organizationRole.
C11_MemberGuardPrecedence ==
    [][GuardRuns("requireOrganizationMember")
       => /\ Entry.verdict.status =
                IF user = <<>> THEN 401
                ELSE IF Resolved = "" THEN 400
                ELSE IF RowsOf(Resolved) = {} THEN 403
                ELSE 0
          /\ Entry.verdict = Proceed
             => /\ ctx'.organizationId = Resolved
                /\ \E m \in RowsOf(Resolved) : ctx'.organizationRole = m.role]_vars

\* requireOrganizationMember admitted an owner and the context holds the
\* organization of the route and the role owner
C11_Witness ==
    /\ Len(log) = 1
    /\ log[1].guard.kind = "requireOrganizationMember"
    /\ log[1].verdict = Proceed
    /\ param # ""
    /\ ctx = [organizationId |-> param, organizationRole |-> "owner"]

\* C14: once a guard has written organizationId and organizationRole into
\* the context of a request, they keep their values for the rest of that
\* request, whatever happens to the membership row in the store.
C14_ContextStable ==
    [][(pc > 0 /\ pc' > 0)
       => /\ ctx.organizationId # "" => ctx'.organizationId = ctx.organizationId
          /\ ctx.organizationRole # ""
             => ctx'.organizationRole = ctx.organizationRole]_vars

\* the last guard that ran, evaluated again on the state it left behind
AgainVerdict ==
    LET g == log[Len(log)].guard
    IN  CASE g.kind = "requireOrganizationMember" ->
                requireOrganizationMember.verdict
          [] g.kind = "requireOrganizationPermission" ->
                requireOrganizationPermission(g.resource, g.action).verdict
          [] g.kind = "requireOrganizationRole" ->
                requireOrganizationRole(g.roles).verdict
          [] g.kind = "requireRole" -> requireRole(g.roles).verdict
          [] g.kind = "requirePermission" ->
                requirePermission(g.resource, g.action).verdict
          [] OTHER -> requireSession.verdict

\* C17: a guard run a second time on the same request, with the principal,
\* the route parameters and the Membership Store unchanged, gives the
\* verdict of its first run, also when the first run wrote the context.
C17_SameVerdictTwice ==
    [][(pc \in 1..Len(chain) /\ Len(log') = Len(log) + 1)
       => AgainVerdict' = Entry.verdict]_vars

\* requireOrganizationMember ran twice on one request, admitted both times
\* and the context it wrote on the first run was in place for the second
C17_Witness ==
    /\ Len(log) = 2
    /\ log[1].guard.kind = "requireOrganizationMember"
    /\ log[2].guard = log[1].guard
    /\ log[1].verdict = Proceed
    /\ log[2].verdict = Proceed
    /\ ctx.organizationId = param
    /\ param # ""

\* the first non-empty string of a sequence, null when there is none
RECURSIVE FirstNonEmpty(_)
FirstNonEmpty(seq) ==
    IF seq = <<>> THEN <<>>
    ELSE IF Head(seq) # "" THEN <<Head(seq)>>
    ELSE FirstNonEmpty(Tail(seq))

\* C13: getOrganizationId returns the first non-empty value among the
\* context's organizationId, the route parameters organizationId and orgId,
\* and the query parameters organizationId and orgId, in this order; null
\* when all five are empty; the call leaves the context as it was.
C13_ResolutionOrder ==
    [][call'.fn = "getOrganizationId" =>
          /\ call'.result = FirstNonEmpty(<<ctx.organizationId, param,
                                             sources.paramOrgId,
                                             sources.queryOrganizationId,
                                             sources.queryOrgId>>)
          /\ ctx' = ctx]_vars

\* the route and the query carry different ids and the route's one is returned
C13_Witness ==
    /\ call.fn = "getOrganizationId"
    /\ ctx.organizationId = "" /\ param = ""
    /\ sources.paramOrgId = "o2" /\ sources.queryOrganizationId = "o1"
    /\ call.result = <<"o2">>

\* C16: checkPermission and checkOrganizationPermission never throw; they
\* return false without a principal, without an organization id in the
\* argument, the context and the route parameter (organization helper), and
\* when the permission resolution raises; they return true only when the
\* resolution reports success.
C16_HelpersFailClosed ==
    call.fn \in {"checkPermission", "checkOrganizationPermission"} =>
        /\ ~call.result.threw
        /\ user = <<>> => call.result.value = FALSE
        /\ (/\ call.fn = "checkOrganizationPermission"
            /\ call.organizationId = "" /\ ctx.organizationId = "" /\ param = "")
              => call.result.value = FALSE
        /\ call.api.threw => call.result.value = FALSE
        /\ call.result.value = TRUE => call.api.success = <<TRUE>>

\* the resolution raises for a signed-in principal and the helper returns false
C16_Witness ==
    /\ call.fn = "checkPermission"
    /\ user # <<>>
    /\ call.api.threw
    /\ call.result = Returned(FALSE)

\* C12: an organization guard rejects for a missing organization id only
\* when the context, the route parameter and the query parameter all lack
\* one; an id in any of the three is the one whose membership is looked up.
C12_MissingIdOnlyWithoutSource ==
    [][(user # <<>> /\ \E kind \in OrgGuards : GuardRuns(kind))
       => /\ Entry.verdict = HTTPException(400, "Organization ID required")
             => /\ ctx.organizationId = "" /\ param = ""
                /\ sources.queryOrganizationId = ""
          /\ OrElse(Resolved, sources.queryOrganizationId) # ""
             => Entry.dbReads = 1]_vars

\* C15: an error of the Membership Store during an organization guard comes
\* out of the guard as a failure that is not a Forbidden denial.
C15_StoreErrorPropagates ==
    [][(/\ storeFault /\ user # <<>> /\ Resolved # ""
        /\ \E kind \in OrgGuards : GuardRuns(kind))
       => Entry.verdict.status # 403]_vars

\* request r runs the handler's first part / its transaction in this step
Reads(r) == accept[r].pc = "idle" /\ accept'[r].pc # "idle"
Commits(r) == accept[r].pc = "tx" /\ accept'[r].pc = "done"

\* the membership an acceptance in progress is about
RowOf(a) ==
    [organizationId |-> a.invitation[1].organizationId, userId |-> a.userId,
     role |-> a.invitation[1].role]

IsMember(organizationId, userId) ==
    \E m \in members : m.organizationId = organizationId /\ m.userId = userId

C18_ExpiredWitness ==
    /\ \E r \in Requests : accept[r].pc = "done" /\ accept[r].status = 500
    /\ Len(invitations) = 1 /\ invitations[1] # <<>>
    /\ now > invitations[1][1].expiresAt
    /\ members = {}

\* no two rows of organization_member for one (organizationId, userId)
OneRowPerPair ==
    \A m1, m2 \in members :
        (m1.organizationId = m2.organizationId /\ m1.userId = m2.userId)
            => m1 = m2

\* C19: whatever the order and interleaving of acceptances, the store never
\* holds two rows for one (organizationId, userId); the transaction of a
\* principal who is a member by then fails and leaves memberships and
\* invitations as they were.
C19_NoDuplicateMembership ==
    [][/\ OneRowPerPair'
       /\ \A r \in Requests :
             (/\ Commits(r)
              /\ IsMember(RowOf(accept[r]).organizationId, accept[r].userId))
             => /\ accept'[r].status >= 400
                /\ members' = members
                /\ invitations' = invitations]_vars

\* two requests of u1 were both in the transaction stage for invitation 1:
\* one has created the row, the other has failed, and one row is there
C19_Witness ==
    /\ accept["r1"].pc = "done" /\ accept["r1"].status = 200
    /\ accept["r2"].pc = "done" /\ accept["r2"].status = 500
    /\ Len(invitations) = 1 /\ invitations[1] = <<>>
    /\ now = 0
    /\ Cardinality(members) = 1

\* C20: a delete-user request whose :id is the acting principal's id ends
\* rejected and removes no user row, also for a principal whose role is
\* admin: the handler answers 400 and the table is as it was.
C20_NoSelfDeletion ==
    [][(/\ pc > 0 /\ route.handler = "deleteUser"
        /\ user # <<>> /\ user[1].id = route.id)
       => /\ users' = users
          /\ res'.status # 200
          /\ (handlerRan' /\ ~handlerRan)
             => res' = HTTPException(400, "Cannot delete your own account")]_vars

\* an admin who is not banned asked for the deletion of their own row, the
\* handler ran and answered 400, and the row is in the table
C20_Witness ==
    /\ handlerRan
    /\ route.handler = "deleteUser"
    /\ user # <<>> /\ user[1].id = route.id
    /\ user[1].role = "admin" /\ ~user[1].banned
    /\ res.status = 400
    /\ user[1] \in users

\* the route's only guard is requireRole("admin"), as under /admin/*
AdminOnly == chain = <<Guard("requireRole", "", "", {"admin"})>>

\* C23: behind requireRole("admin") a request without a principal is
\* rejected with 401 and a principal whose systemRole is not admin (a
\* missing role counts as user) with 403, whatever rows the Membership Store
\* holds for it; the handler runs only for a principal with systemRole admin.
C23_AdminRoutesNeedAdmin ==
    [][AdminOnly
       => /\ GuardRuns("requireRole")
             => Entry.verdict.status =
                   IF user = <<>> THEN 401
                   ELSE IF SystemRole # "admin" THEN 403
                   ELSE 0
          /\ handlerRan' => (user # <<>> /\ user[1].role = "admin")]_vars

\* a principal without a system role who owns an organization was rejected
\* with 403 in front of an admin route
C23_Witness ==
    /\ AdminOnly
    /\ user # <<>> /\ user[1].role = ""
    /\ \E m \in members : m.userId = user[1].id /\ m.role = "owner"
    /\ res.status = 403
    /\ ~handlerRan

\* C27: on a route with an organizationId route parameter, the context's
\* organizationId is empty or equal to that parameter at every point of the
\* request, the handler included.
C27_ContextOrgIsRouteOrg ==
    (pc > 0 /\ param # "" /\ ctx.organizationId # "")
        => ctx.organizationId = param

\* two organization guards admitted the request for o2 and the handler ran
C27_Witness ==
    /\ handlerRan
    /\ Len(log) = 2
    /\ log[1].guard.kind = "requireOrganizationMember"
    /\ log[2].guard.kind = "requireOrganizationRole"
    /\ param = "o2"
    /\ ctx.organizationId = "o2"

\* the one rejection each organization guard's catch block ends in
Denied(kind) ==
    HTTPException(403,
        IF kind = "requireOrganizationMember" THEN "Organization access denied"
        ELSE IF kind = "requireOrganizationPermission"
        THEN "Organization permission denied"
        ELSE "Organization role check failed")

\* some membership names the organization: it exists
HasMembers(o) == \E m \in members : m.organizationId = o

\* C28: a principal without a membership row for the resolved organization
\* gets the same rejection from each organization guard, whether other
\* rows name that organization or none does; requireOrganizationPermission
\* has one rejection for the non-member and for the member whose role lacks
\* the permission.
C28_UniformRejection ==
    [][/\ \A kind \in OrgGuards :
             (/\ GuardRuns(kind) /\ user # <<>> /\ Resolved # ""
              /\ RowsOf(Resolved) = {})
             => Entry.verdict = Denied(kind)
       /\ (/\ GuardRuns("requireOrganizationPermission")
           /\ user # <<>> /\ Resolved # ""
           /\ Entry.verdict # Proceed)
          => Entry.verdict = Denied("requireOrganizationPermission")]_vars

\* a member whose role lacks the permission was rejected by
\* requireOrganizationPermission with the rejection of a non-member
C28_Witness ==
    /\ Len(log) = 1
    /\ log[1].guard.kind = "requireOrganizationPermission"
    /\ user # <<>> /\ param # ""
    /\ \E m \in RowsOf(param) : m.role = "member"
    /\ log[1].policyReads = 1
    /\ res = Denied("requireOrganizationPermission")

\* C29: a membership lookup that raises makes the organization guard
\* reject: the context is left as it was, the request ends with the
\* rejection, and a handler runs only after every guard of its chain
\* called next().
C29_StoreFailureRejects ==
    [][/\ (/\ storeFault /\ user # <<>> /\ Resolved # ""
           /\ \E kind \in OrgGuards : GuardRuns(kind))
          => /\ Entry.verdict.status >= 400
             /\ ctx' = ctx
             /\ res' = Entry.verdict
             /\ ~handlerRan'
       /\ (handlerRan' /\ ~handlerRan)
          => /\ Len(log) = Len(chain)
             /\ \A i \in 1..Len(log) : log[i].verdict = Proceed]_vars

\* the store is down and a member's request has been rejected by the guard
C29_Witness ==
    /\ storeFault
    /\ Len(log) = 1
    /\ log[1].guard.kind \in OrgGuards
    /\ log[1].dbReads = 1
    /\ user # <<>> /\ param # ""
    /\ RowsOf(param) # {}
    /\ log[1].guard.kind = "requireOrganizationMember"
    /\ res.status = 403
    /\ ctx = NoContext
    /\ ~handlerRan

\* the roles above a role in its hierarchy
Above(fn, role) ==
    IF fn = "hasPermission"
    THEN (IF role = "user" THEN {"admin"} ELSE {})
    ELSE (IF role = "member" THEN {"admin", "owner"}
          ELSE IF role = "admin" THEN {"owner"}
          ELSE {})

\* C30: a (resource, action) granted to organization role member is
\* granted to admin and owner, one granted to organization role admin is
\* granted to owner, and one granted to app role user is granted to app
\* role admin.
C30_MonotoneRoles ==
    (call.fn \in {"hasPermission", "hasOrganizationPermission"}
        /\ call.result = Returned(TRUE))
    => \A higher \in Above(call.fn, call.role) :
          (IF call.fn = "hasPermission"
           THEN hasPermission(higher, call.resource, call.action)
           ELSE hasOrganizationPermission(higher, call.resource, call.action))
             = Returned(TRUE)

\* organization admin was asked for invitation.cancel and was granted it
C30_Witness ==
    /\ call.fn = "hasOrganizationPermission"
    /\ call.role = "admin"
    /\ call.resource = "invitation"
    /\ call.action = "cancel"
    /\ call.result = Returned(TRUE)

C24_HandlerNeedsSession ==
    [][/\ (pc = 0 /\ pc' = 1)
          => /\ (user' = <<>>) <=> (session' = <<>>)
             /\ (call'.threw \/ call'.principal = <<>>)
                => (user' = <<>> /\ session' = <<>>)
       /\ (GuardRuns("requireSession") /\ session = <<>>)
          => /\ Entry.verdict.status = 401
             /\ res' = Entry.verdict
       /\ (handlerRan' /\ ~handlerRan)
          => (user # <<>> /\ session # <<>>)]_vars

\* the resolver threw, the request went on without user and session and
\* the session check answered 401 before the handler
C24_Witness ==
    /\ call.fn = "getSession" /\ call.threw
    /\ pc = 1
    /\ user = <<>> /\ session = <<>>
    /\ Len(log) = 1
    /\ res.status = 401
    /\ ~handlerRan

\* the user table holds an admin row for the id that is not banned
UnbannedAdmin(userId) ==
    \E row \in users : row.id = userId /\ row.role = "admin" /\ ~row.banned

\* what the organization-permission lookup reported
Lookup25 == ~call.api.threw /\ call.api.success = <<TRUE>>

AcceptSucceeds(id) ==
    \E r \in Requests : /\ Commits(r)
                        /\ accept[r].invitationId = id
                        /\ accept'[r].status = 200
RejectSucceeds(id) ==
    \E r \in Requests : /\ accept[r].pc = "rx" /\ accept'[r].pc = "done"
                        /\ accept[r].invitationId = id
                        /\ accept'[r].status = 200
CancelSucceeds(id) ==
    /\ accept' = accept
    /\ id \in 1..Len(invitations)
    /\ invitations[id] # <<>> /\ invitations'[id] = <<>>

\* C26: an accept, a reject or a cancel succeeds only on an invitation that
\* is in the table and removes it, and a removed invitation stays removed:
\* at most one of them succeeds per invitation.  A membership row appears
\* only in the step of a successful accept, and the transaction of an
\* accept whose invitation is gone fails and adds nothing.
C26_OneConsumer ==
    [][/\ \A id \in 1..MaxInvitations :
             /\ (AcceptSucceeds(id) \/ RejectSucceeds(id) \/ CancelSucceeds(id))
                => /\ id \in 1..Len(invitations)
                   /\ invitations[id] # <<>>
                   /\ invitations'[id] = <<>>
             /\ (id \in 1..Len(invitations) /\ invitations[id] = <<>>)
                => invitations'[id] = <<>>
             /\ (RejectSucceeds(id) \/ CancelSucceeds(id))
                => members' = members
       /\ \A r \in Requests :
             Commits(r)
             => IF accept'[r].status = 200
                THEN members' = members \cup {RowOf(accept[r])}
                ELSE members' = members
       /\ (\A r \in Requests : ~Commits(r)) => members' = members
       /\ \A r \in Requests :
             (Commits(r) /\ invitations[accept[r].invitationId] = <<>>)
             => (accept'[r].status >= 400 /\ members' = members)]_vars

\* an accept has read invitation 1 and a reject has deleted it since: the
\* accept's transaction is still to come and no membership exists
C26_Witness ==
    /\ accept["r1"].pc = "tx" /\ accept["r1"].invitationId = 1
    /\ accept["r2"].pc = "done" /\ accept["r2"].status = 200
    /\ Len(invitations) = 1 /\ invitations[1] = <<>>
    /\ members = {}

====
